---- MODULE Spec2Model ----
(***************************************************************************)
(* The analytics clients of thrift/clients.py: AccessStats and             *)
(* PublicationStats.  A public operation builds a query body, makes an RPC *)
(* client, sends one search request, decodes the JSON response and folds   *)
(* it with the operation's _compute_* reducer.                             *)
(*                                                                         *)
(* A JSON object is a function from its keys (strings) to values, so that  *)
(* a missing key is a key outside DOMAIN; a JSON array is a sequence.  A   *)
(* Python str of decimal digits (a year key) is the sequence of its digits *)
(* and is compared as Python compares strings.                             *)
(***************************************************************************)
EXTENDS Integers, Sequences, FiniteSets, TLC

VARIABLES pc, op, years, raw, document_types, issue_type, body,
          clients, requests, query_result, year, reductions, result

vars == <<pc, op, years, raw, document_types, issue_type, body,
          clients, requests, query_result, year, reductions, result>>

(* Bounds of the model. *)
MaxYears == 2
MaxBuckets == 2
MaxNested == 2
MaxCount == 2
MaxHits == 2

(* The wall-clock years date.today() may report, and the year keys a       *)
(* response may carry.                                                     *)
ClockYears == {2025, 2026}
ResponseYears == {2024, 2025, 2026}

(***************************************************************************)
(* Python values                                                           *)
(***************************************************************************)
EmptyDict == [k \in {} |-> 0]

Has(d, k) == k \in DOMAIN d

(* d.get(k, default) on an object whose values for k are integers. *)
DictGet(d, k, default) == IF Has(d, k) THEN d[k] ELSE default

RECURSIVE Str(_)
Str(i) == IF i < 10 THEN <<i>> ELSE Str(i \div 10) \o <<i % 10>>

RECURSIVE IntOf(_)
IntOf(s) == IF Len(s) = 0 THEN 0
            ELSE 10 * IntOf(SubSeq(s, 1, Len(s) - 1)) + s[Len(s)]

(* s < t for two Python strings of digits: lexicographic, a proper prefix  *)
(* first.                                                                  *)
RECURSIVE StrLess(_, _)
StrLess(s, t) ==
    IF Len(t) = 0 THEN FALSE
    ELSE IF Len(s) = 0 THEN TRUE
    ELSE IF s[1] # t[1] THEN s[1] < t[1]
    ELSE StrLess(Tail(s), Tail(t))

(* int(x) of a non-negative float x, kept in halves: truncation. *)
PyInt(halves) == halves \div 2

(* Outcomes of a call or of a reducer. *)
Raise(exc) == [kind |-> "raise", exc |-> exc]
KeyError == Raise("KeyError")
TransportError == Raise("TransportError")
None == [kind |-> "None"]
Scalar(v) == [kind |-> "scalar", value |-> v]
PairList(l) == [kind |-> "list", items |-> l]
Mapping(m) == [kind |-> "dict", map |-> m]
Record(r) == [kind |-> "record", value |-> r]
Raw(r) == [kind |-> "raw", value |-> r]
NoResult == [kind |-> "pending"]

(***************************************************************************)
(* The year window and the ordered list of a year -> count dict            *)
(***************************************************************************)
(* range(year, year-years-1, -1): one year too many. *)
WindowKeysOneMore(y, n) == {Str(i) : i \in (y - n)..y}

(* range(year, year-years, -1) as the set of str(i). *)
WindowKeys(y, n) == {Str(i) : i \in (y - n + 1)..y}

(* Every bucket key passes the window test. *)
InYearsAlways(key, yrs) == TRUE

(* item['key'] in years *)
InYears(key, yrs) == key \in DOMAIN yrs

(* years[key] = value: a key the dict lacks is added. *)
SetYear(yrs, key, value) ==
    [k \in DOMAIN yrs \cup {key} |-> IF k = key THEN value ELSE yrs[k]]

StrMax(S) == CHOOSE k \in S : \A j \in S : j = k \/ StrLess(j, k)

(* [(k, v) for k, v in sorted(years.items(), reverse=True)] *)
RECURSIVE SortedItemsDesc(_)
SortedItemsDesc(d) ==
    IF DOMAIN d = {} THEN <<>>
    ELSE LET k == StrMax(DOMAIN d)
         IN  <<(<<k, d[k]>>)>> \o
             SortedItemsDesc([j \in DOMAIN d \ {k} |-> d[j]])

(***************************************************************************)
(* PublicationStats._compute_number_of_articles_by_year                    *)
(***************************************************************************)
ArticleValue(item) == DictGet(item, "doc_count", 0)

RECURSIVE ArticlesLoop(_, _, _)
ArticlesLoop(buckets, i, yrs) ==
    IF i > Len(buckets) THEN PairList(SortedItemsDesc(yrs))
    ELSE LET item == buckets[i]
         IN  IF ~Has(item, "key") THEN KeyError
             ELSE IF ~InYears(item.key, yrs)
                  THEN ArticlesLoop(buckets, i + 1, yrs)
                  ELSE ArticlesLoop(buckets, i + 1,
                           SetYear(yrs, item.key, ArticleValue(item)))

(* The buckets the by-year loops iterate, or the KeyError of the lookup. *)
YearBuckets(qr) ==
    IF ~Has(qr, "aggregations") THEN KeyError
    ELSE IF ~Has(qr.aggregations, "publication_year") THEN KeyError
    ELSE IF ~Has(qr.aggregations.publication_year, "buckets") THEN KeyError
    ELSE [kind |-> "buckets",
          buckets |-> qr.aggregations.publication_year.buckets]

(* query_result['aggregations'][name]['value'] *)
TopMetric(qr, name) ==
    IF ~Has(qr, "aggregations") THEN KeyError
    ELSE IF ~Has(qr.aggregations, name) THEN KeyError
    ELSE IF ~Has(qr.aggregations[name], "value") THEN KeyError
    ELSE Scalar(qr.aggregations[name].value)

(* The buckets are folded last to first, so the first bucket of a year is  *)
(* the one whose value stays.                                              *)
compute_number_of_articles_first_wins(qr, n, y) ==
    IF n = 0 THEN TopMetric(qr, "id")
    ELSE LET b == YearBuckets(qr)
         IN  IF b.kind = "raise" THEN b
             ELSE ArticlesLoop([i \in 1..Len(b.buckets) |->
                                   b.buckets[Len(b.buckets) + 1 - i]],
                               1, [k \in WindowKeys(y, n) |-> 0])

compute_number_of_articles_by_year(qr, n, y) ==
    IF n = 0 THEN TopMetric(qr, "id")
    ELSE LET b == YearBuckets(qr)
         IN  IF b.kind = "raise" THEN b
             ELSE ArticlesLoop(b.buckets, 1, [k \in WindowKeys(y, n) |-> 0])

(***************************************************************************)
(* PublicationStats._compute_number_of_issues_by_year                      *)
(***************************************************************************)
(* item.get('doc_count', 0), as the articles reducer reads a bucket. *)
IssueDocCount(item) == DictGet(item, "doc_count", 0)

(* item.get('issue', {}).get('value', 0) *)
IssueValue(item) == DictGet(DictGet(item, "issue", EmptyDict), "value", 0)

RECURSIVE IssuesLoop(_, _, _)
IssuesLoop(buckets, i, yrs) ==
    IF i > Len(buckets) THEN PairList(SortedItemsDesc(yrs))
    ELSE LET item == buckets[i]
         IN  IF ~Has(item, "key") THEN KeyError
             ELSE IF ~InYears(item.key, yrs)
                  THEN IssuesLoop(buckets, i + 1, yrs)
                  ELSE IssuesLoop(buckets, i + 1,
                           SetYear(yrs, item.key, IssueValue(item)))

compute_number_of_issues_by_year(qr, n, y) ==
    IF n = 0 THEN TopMetric(qr, "issue")
    ELSE LET b == YearBuckets(qr)
         IN  IF b.kind = "raise" THEN b
             ELSE IssuesLoop(b.buckets, 1, [k \in WindowKeys(y, n) |-> 0])

(***************************************************************************)
(* PublicationStats._compute_documents_languages_by_year                   *)
(***************************************************************************)
ZeroLangs == [pt |-> 0, en |-> 0, es |-> 0, other |-> 0]

(* Only pt and en keep their own slot. *)
LangSlotWithoutEs(key, langs) == IF key \in {"pt", "en"} THEN key ELSE "other"

(* The slot a language bucket's doc_count is added to. *)
LangSlot(key, langs) == IF key \in DOMAIN langs THEN key ELSE "other"

RECURSIVE LanguagesLoop(_, _, _)
LanguagesLoop(lbuckets, j, langs) ==
    IF j > Len(lbuckets) THEN [kind |-> "langs", langs |-> langs]
    ELSE LET language == lbuckets[j]
         IN  IF ~Has(language, "key") THEN KeyError
             ELSE IF ~Has(language, "doc_count") THEN KeyError
             ELSE LET slot == LangSlot(language.key, langs)
                  IN  LanguagesLoop(lbuckets, j + 1,
                          [langs EXCEPT ![slot] = @ + language.doc_count])

(* The langs record of one in-window year bucket. *)
ItemLangs(item) ==
    IF ~Has(item, "languages") THEN KeyError
    ELSE IF ~Has(item.languages, "buckets") THEN KeyError
    ELSE LanguagesLoop(item.languages.buckets, 1, ZeroLangs)

RECURSIVE LanguageYearsLoop(_, _, _)
LanguageYearsLoop(buckets, i, yrs) ==
    IF i > Len(buckets) THEN Mapping(yrs)
    ELSE LET item == buckets[i]
         IN  IF ~Has(item, "key") THEN KeyError
             ELSE IF ~InYears(item.key, yrs)
                  THEN LanguageYearsLoop(buckets, i + 1, yrs)
                  ELSE LET l == ItemLangs(item)
                       IN  IF l.kind = "raise" THEN l
                           ELSE LanguageYearsLoop(buckets, i + 1,
                                    SetYear(yrs, item.key, l.langs))

(* years = 0 is read as "no restriction" and given the widest window. *)
compute_documents_languages_unrestricted(qr, n, y) ==
    LET b == YearBuckets(qr)
    IN  IF b.kind = "raise" THEN b
        ELSE LanguageYearsLoop(b.buckets, 1,
                 [k \in WindowKeys(y, IF n = 0 THEN MaxYears ELSE n) |-> ZeroLangs])

compute_documents_languages_by_year(qr, n, y) ==
    LET b == YearBuckets(qr)
    IN  IF b.kind = "raise" THEN b
        ELSE LanguageYearsLoop(b.buckets, 1,
                 [k \in WindowKeys(y, n) |-> ZeroLangs])

(***************************************************************************)
(* AccessStats._compute_access_lifetime                                    *)
(***************************************************************************)
Metrics == <<"access_html", "access_abstract", "access_pdf", "access_epdf",
             "access_total">>

(* Every metric of the row can be read: ay[m]['value'] for each m. *)
MetricsReadable(ay) ==
    \A m \in 1..Len(Metrics) : Has(ay, Metrics[m]) /\ Has(ay[Metrics[m]], "value")

LifetimeRow(py, ay) ==
    IF ~Has(py, "key") \/ ~Has(ay, "key") \/ ~MetricsReadable(ay) THEN KeyError
    ELSE [kind |-> "row",
          row |-> <<py.key, ay.key,
                    PyInt(ay.access_html.value),
                    PyInt(ay.access_abstract.value),
                    PyInt(ay.access_pdf.value),
                    PyInt(ay.access_epdf.value),
                    PyInt(ay.access_total.value)>>]

(* a < b for two rows, as Python compares lists. *)
RowLess(a, b) ==
    \E p \in 1..7 :
        /\ \A q \in 1..(p - 1) : a[q] = b[q]
        /\ IF p <= 2 THEN StrLess(a[p], b[p]) ELSE a[p] < b[p]

RECURSIVE Insert(_, _)
Insert(row, sortedRows) ==
    IF sortedRows = <<>> THEN <<row>>
    ELSE IF RowLess(row, Head(sortedRows)) THEN <<row>> \o sortedRows
    ELSE <<Head(sortedRows)>> \o Insert(row, Tail(sortedRows))

(* The rows in the order the buckets came in. *)
Unsorted(data) == data

(* sorted(data) *)
RECURSIVE Sorted(_)
Sorted(data) ==
    IF data = <<>> THEN <<>>
    ELSE Insert(data[Len(data)], Sorted(SubSeq(data, 1, Len(data) - 1)))

RECURSIVE AccessYearsLoop(_, _, _, _)
AccessYearsLoop(py, abuckets, j, data) ==
    IF j > Len(abuckets) THEN [kind |-> "data", data |-> data]
    ELSE LET r == LifetimeRow(py, abuckets[j])
         IN  IF r.kind = "raise" THEN r
             ELSE AccessYearsLoop(py, abuckets, j + 1, Append(data, r.row))

RECURSIVE LifetimeLoop(_, _, _)
LifetimeLoop(buckets, i, data) ==
    IF i > Len(buckets) THEN [kind |-> "rows", rows |-> Sorted(data)]
    ELSE LET py == buckets[i]
         IN  IF ~Has(py, "access_year") THEN KeyError
             ELSE IF ~Has(py.access_year, "buckets") THEN KeyError
             ELSE LET d == AccessYearsLoop(py, py.access_year.buckets, 1, data)
                  IN  IF d.kind = "raise" THEN d
                      ELSE LifetimeLoop(buckets, i + 1, d.data)

compute_access_lifetime(qr) ==
    LET b == YearBuckets(qr)
    IN  IF b.kind = "raise" THEN b
        ELSE LifetimeLoop(b.buckets, 1, <<>>)

(***************************************************************************)
(* PublicationStats._compute_first_included_document_by_journal and        *)
(* _compute_last_included_document_by_journal                              *)
(***************************************************************************)
(* query_result.get('hits', {'hits': []}).get('hits', []) *)
HitList(qr) == DictGet(DictGet(qr, "hits", [hits |-> <<>>]), "hits", <<>>)

(* The source of the last hit instead of the first. *)
compute_last_hit(qr) ==
    IF Len(HitList(qr)) = 0 THEN None
    ELSE IF Has(qr.hits.hits[Len(qr.hits.hits)], "_source")
         THEN Record(qr.hits.hits[Len(qr.hits.hits)]._source)
         ELSE None

compute_first_included_document_by_journal(qr) ==
    IF Len(HitList(qr)) = 0 THEN None
    ELSE IF Has(qr.hits.hits[1], "_source")
         THEN Record(qr.hits.hits[1]._source)
         ELSE None

(* The first hit's _source is subscripted instead of read with .get. *)
compute_last_included_subscripted(qr) ==
    IF Len(HitList(qr)) = 0 THEN None
    ELSE IF Has(qr.hits.hits[1], "_source")
         THEN Record(qr.hits.hits[1]._source)
         ELSE KeyError

compute_last_included_document_by_journal(qr) ==
    IF Len(HitList(qr)) = 0 THEN None
    ELSE IF Has(qr.hits.hits[1], "_source")
         THEN Record(qr.hits.hits[1]._source)
         ELSE None

(***************************************************************************)
(* Query bodies                                                            *)
(***************************************************************************)
Match(field, value) == [match |-> (field :> value)]

Cardinality_(field) == [cardinality |-> [field |-> field]]

Sum(field) == [sum |-> [field |-> field]]

(* A publication_year terms bucket ordered by term, with one nested        *)
(* aggregation.                                                            *)
YearTerms(size, nested) ==
    [publication_year |->
        [terms |-> [field |-> "publication_year", size |-> size,
                    order |-> [_term |-> "desc"]],
         aggs |-> nested]]

access_lifetime_body(issn, collection) ==
    [query |-> [bool |-> [must |-> <<Match("collection", collection),
                                     Match("issn", issn)>>]],
     size |-> 0,
     aggs |->
        [publication_year |->
            [terms |-> [field |-> "publication_year", size |-> 0,
                        order |-> [access_total |-> "desc"]],
             aggs |->
                [access_total |-> Sum("access_total"),
                 access_year |->
                    [terms |-> [field |-> "access_year", size |-> 0,
                                order |-> [access_total |-> "desc"]],
                     aggs |-> [access_total |-> Sum("access_total"),
                               access_abstract |-> Sum("access_abstract"),
                               access_epdf |-> Sum("access_epdf"),
                               access_html |-> Sum("access_html"),
                               access_pdf |-> Sum("access_pdf")]]]]]]

documents_languages_by_year_body(issn, collection, n) ==
    [query |-> [filtered |-> [query |-> [bool |->
        [must |-> <<Match("issn", issn), Match("collection", collection)>>]]]],
     aggs |-> YearTerms(n,
        [languages |-> [terms |-> [field |-> "languages", size |-> 0]]])]

(* Only the first document type is matched. *)
ShouldFilterFirstOnly(types) ==
    [query |-> [bool |-> [should |-> <<Match("document_type", types[1])>>]]]

(* body['query']['filtered']['filter'], one match clause per type in order *)
ShouldFilter(types) ==
    [query |-> [bool |-> [should |->
        [t \in 1..Len(types) |-> Match("document_type", types[t])]]]]

number_of_articles_by_year_body(issn, collection, types, n) ==
    [query |-> [filtered |->
        [query |-> [bool |->
            [must |-> <<Match("issn", issn), Match("collection", collection)>>]]]
        @@ (IF Len(types) # 0 THEN "filter" :> ShouldFilter(types)
            ELSE EmptyDict)],
     aggs |-> IF n # 0 THEN YearTerms(n, [id |-> Cardinality_("id")])
              ELSE [id |-> Cardinality_("id")]]

(* The year bucket is requested whatever years is. *)
number_of_issues_by_year_body_bucketed(issn, collection, n, type) ==
    [query |-> [bool |->
        [must |-> <<Match("issn", issn), Match("collection", collection)>>
                  \o (IF type # "" THEN <<Match("issue_type", type)>>
                      ELSE <<>>)]],
     aggs |-> YearTerms(n, [issue |-> Cardinality_("issue")])]

number_of_issues_by_year_body(issn, collection, n, type) ==
    [query |-> [bool |->
        [must |-> <<Match("issn", issn), Match("collection", collection)>>
                  \o (IF type # "" THEN <<Match("issue_type", type)>>
                      ELSE <<>>)]],
     aggs |-> IF n # 0 THEN YearTerms(n, [issue |-> Cardinality_("issue")])
              ELSE [issue |-> Cardinality_("issue")]]

RegularIssuesOf(issn, collection) ==
    [bool |-> [must |-> <<Match("collection", collection), Match("issn", issn),
                          Match("issue_type", "regular")>>]]

first_included_document_by_journal_body(issn, collection) ==
    [query |-> [filtered |-> [query |-> RegularIssuesOf(issn, collection)]],
     sort |-> <<[publication_date |-> [order |-> "asc"]]>>]

last_included_document_by_journal_body(issn, collection) ==
    [query |-> [filtered |->
        [query |-> RegularIssuesOf(issn, collection),
         filter |-> [exists |-> [field |-> "publication_date"]]]],
     sort |-> <<[publication_date |-> [order |-> "desc"]]>>]

(* publication_stats_thrift.kwargs('size', v) *)
SizeParameter(v) == <<[key |-> "size", value |-> v]>>

(***************************************************************************)
(* Backend responses (decoded JSON)                                        *)
(***************************************************************************)
YearKeys == {Str(y) : y \in ResponseYears}

(* All sequences over S of length at most n. *)
RECURSIVE SeqsUpTo(_, _)
SeqsUpTo(S, n) ==
    IF n = 0 THEN {<<>>}
    ELSE LET shorter == SeqsUpTo(S, n - 1)
         IN  shorter \cup {Append(q, x) : q \in shorter, x \in S}

(* All sequences over S of length exactly n. *)
RECURSIVE SeqsOfLen(_, _)
SeqsOfLen(S, n) ==
    IF n = 0 THEN {<<>>}
    ELSE LET shorter == SeqsOfLen(S, n - 1)
         IN  {Append(q, x) : q \in shorter, x \in S}

WithBuckets(buckets) ==
    [aggregations |-> [publication_year |-> [buckets |-> buckets]]]

(* Responses lacking an aggregation key above the year buckets. *)
NoBuckets ==
    {EmptyDict, [aggregations |-> EmptyDict],
     [aggregations |-> [publication_year |-> EmptyDict]]}

(* A top-level cardinality metric, or a response lacking part of it. *)
MetricResponses(name) ==
    {[aggregations |-> (name :> [value |-> v])] : v \in 0..MaxCount}
    \cup {EmptyDict, [aggregations |-> EmptyDict],
          [aggregations |-> (name :> EmptyDict)]}

(* Year buckets of the articles query: doc_count and the nested id metric, *)
(* either of which may be missing, or the key itself.                      *)
ArticleItems ==
    {[key |-> k, doc_count |-> c, id |-> [value |-> 1]] :
        k \in YearKeys, c \in 1..MaxCount}
    \cup {[key |-> k, doc_count |-> c] : k \in YearKeys, c \in 1..MaxCount}
    \cup {[key |-> k, id |-> [value |-> 1]] : k \in YearKeys}
    \cup {[doc_count |-> 1, id |-> [value |-> 1]]}

ArticleResponses(n) ==
    IF n = 0 THEN MetricResponses("id")
    ELSE NoBuckets \cup
         {WithBuckets(b) : b \in SeqsUpTo(ArticleItems, MaxBuckets)}

(* Year buckets of the issues query. *)
IssueItems ==
    {[key |-> k, issue |-> [value |-> v]] : k \in YearKeys, v \in 0..MaxCount}
    \cup {[key |-> k, issue |-> EmptyDict] : k \in YearKeys}
    \cup {[key |-> k] : k \in YearKeys}
    \cup {[issue |-> [value |-> 1]]}

IssueResponses(n) ==
    IF n = 0 THEN MetricResponses("issue")
    ELSE NoBuckets \cup
         {WithBuckets(b) : b \in SeqsUpTo(IssueItems, MaxBuckets)}

(* Language buckets: one representative count per language key. *)
LanguageBuckets ==
    {[key |-> "pt", doc_count |-> 1], [key |-> "en", doc_count |-> 2],
     [key |-> "es", doc_count |-> 3], [key |-> "fr", doc_count |-> 5]}

LanguageItem(k, lbuckets) == [key |-> k, languages |-> [buckets |-> lbuckets]]

(* Sequences of at most b year buckets carrying at most t language buckets *)
(* in all.                                                                 *)
RECURSIVE LanguageYearSeqs(_, _)
LanguageYearSeqs(b, t) ==
    IF b = 0 THEN {<<>>}
    ELSE {<<>>} \cup
         UNION {LET lists == SeqsOfLen(LanguageBuckets, m)
                    rests == LanguageYearSeqs(b - 1, t - m)
                IN  {<<LanguageItem(k, l)>> \o rest :
                        k \in YearKeys, l \in lists, rest \in rests} :
                m \in 0..t}

(* Year buckets the language reducer cannot fold. *)
BrokenLanguageItems ==
    {[languages |-> [buckets |-> <<>>]]}
    \cup {[key |-> k] : k \in YearKeys}
    \cup {[key |-> k, languages |-> EmptyDict] : k \in YearKeys}
    \cup {LanguageItem(k, <<[doc_count |-> 1]>>) : k \in YearKeys}
    \cup {LanguageItem(k, <<[key |-> "pt"]>>) : k \in YearKeys}

LanguageResponses ==
    NoBuckets
    \cup {WithBuckets(b) : b \in LanguageYearSeqs(MaxBuckets, MaxNested)}
    \cup {WithBuckets(<<x>>) : x \in BrokenLanguageItems}
    \cup {WithBuckets(<<x, LanguageItem(k, <<[key |-> "pt", doc_count |-> 1]>>)>>) :
            x \in BrokenLanguageItems, k \in YearKeys}

(* An access_year bucket; metric values in halves (1.5 is 3). *)
AccessYearBucket(k, html, abstract, pdf, epdf, total) ==
    [key |-> k,
     access_html |-> [value |-> html], access_abstract |-> [value |-> abstract],
     access_pdf |-> [value |-> pdf], access_epdf |-> [value |-> epdf],
     access_total |-> [value |-> total]]

LifetimeKeys == {Str(y) : y \in ClockYears}

AccessYearBuckets ==
    {AccessYearBucket(k, 3, 2, 4, 0, 9) : k \in LifetimeKeys}
    \cup {AccessYearBucket(StrMax(LifetimeKeys), 4, 6, 8, 10, 28)}

LifetimeItem(k, abuckets) == [key |-> k, access_year |-> [buckets |-> abuckets]]

(* Sequences of at most b publication_year buckets carrying at most t      *)
(* access_year buckets in all, each at least one (a terms bucket holds a   *)
(* document, whose access year is a bucket).                               *)
RECURSIVE LifetimeYearSeqs(_, _)
LifetimeYearSeqs(b, t) ==
    IF b = 0 THEN {<<>>}
    ELSE {<<>>} \cup
         UNION {LET lists == SeqsOfLen(AccessYearBuckets, m)
                    rests == LifetimeYearSeqs(b - 1, t - m)
                IN  {<<LifetimeItem(k, l)>> \o rest :
                        k \in LifetimeKeys, l \in lists, rest \in rests} :
                m \in 1..t}

GoodAccessYear == CHOOSE a \in AccessYearBuckets : TRUE

Without(d, k) == [j \in DOMAIN d \ {k} |-> d[j]]

(* publication_year buckets the lifetime reducer cannot fold. *)
BrokenLifetimeItems ==
    {[key |-> GoodAccessYear.key],
     [key |-> GoodAccessYear.key, access_year |-> EmptyDict],
     [access_year |-> [buckets |-> <<GoodAccessYear>>]],
     LifetimeItem(GoodAccessYear.key, <<Without(GoodAccessYear, "key")>>),
     LifetimeItem(GoodAccessYear.key, <<Without(GoodAccessYear, "access_pdf")>>),
     LifetimeItem(GoodAccessYear.key,
         <<[GoodAccessYear EXCEPT !.access_total = EmptyDict]>>)}

(* One publication_year bucket more than the by-year responses, so that a  *)
(* publication year can come back between two buckets of another one.      *)
LifetimeResponses ==
    NoBuckets
    \cup {WithBuckets(b) : b \in LifetimeYearSeqs(MaxBuckets + 1, MaxNested + 1)}
    \cup {WithBuckets(<<LifetimeItem(k, <<>>)>>) : k \in LifetimeKeys}
    \cup {WithBuckets(<<x>>) : x \in BrokenLifetimeItems}

(* Source records, one of them with an empty field. *)
Sources == {[code |-> "S0001"], [code |-> "S0002"], [code |-> ""]}

Hits == {[_source |-> src] : src \in Sources} \cup {[_id |-> "h"]}

DocumentResponses ==
    {EmptyDict, [hits |-> EmptyDict]}
    \cup {[hits |-> [hits |-> h]] : h \in SeqsUpTo(Hits, MaxHits)}

(***************************************************************************)
(* The public operations                                                   *)
(***************************************************************************)
Issns == {"0001-3765"}
Collections == {"scl"}
DocumentTypeLists == {<<>>, <<"research-article", "review-article">>}
IssueTypes == {"", "regular"}

Operations ==
    {"access_lifetime", "documents_languages_by_year",
     "number_of_articles_by_year", "number_of_issues_by_year",
     "first_included_document_by_journal", "last_included_document_by_journal"}

Init ==
    /\ pc = "idle"
    /\ op = "none"
    /\ years = 0
    /\ raw = FALSE
    /\ document_types = <<>>
    /\ issue_type = ""
    /\ body = EmptyDict
    /\ clients = 0
    /\ requests = <<>>
    /\ query_result = EmptyDict
    /\ year = 0
    /\ reductions = 0
    /\ result = NoResult

(* The part of a call every operation shares: the body is built, nothing   *)
(* is sent yet.                                                            *)
Enter(name, b) ==
    /\ pc = "idle"
    /\ pc' = "built"
    /\ op' = name
    /\ body' = b
    /\ clients' = 0
    /\ requests' = <<>>
    /\ reductions' = 0
    /\ UNCHANGED <<query_result, year, result>>

access_lifetime ==
    \E issn \in Issns, collection \in Collections, r \in BOOLEAN :
        /\ Enter("access_lifetime", access_lifetime_body(issn, collection))
        /\ raw' = r
        /\ UNCHANGED <<years, document_types, issue_type>>

documents_languages_by_year ==
    \E issn \in Issns, collection \in Collections, n \in 0..MaxYears :
        /\ Enter("documents_languages_by_year",
                 documents_languages_by_year_body(issn, collection, n))
        /\ years' = n
        /\ UNCHANGED <<raw, document_types, issue_type>>

number_of_articles_by_year ==
    \E issn \in Issns, collection \in Collections,
       types \in DocumentTypeLists, n \in 0..MaxYears :
        /\ Enter("number_of_articles_by_year",
                 number_of_articles_by_year_body(issn, collection, types, n))
        /\ years' = n
        /\ document_types' = types
        /\ UNCHANGED <<raw, issue_type>>

number_of_issues_by_year ==
    \E issn \in Issns, collection \in Collections,
       n \in 0..MaxYears, type \in IssueTypes :
        /\ Enter("number_of_issues_by_year",
                 number_of_issues_by_year_body(issn, collection, n, type))
        /\ years' = n
        /\ issue_type' = type
        /\ UNCHANGED <<raw, document_types>>

first_included_document_by_journal ==
    \E issn \in Issns, collection \in Collections :
        /\ Enter("first_included_document_by_journal",
                 first_included_document_by_journal_body(issn, collection))
        /\ UNCHANGED <<years, raw, document_types, issue_type>>

last_included_document_by_journal ==
    \E issn \in Issns, collection \in Collections :
        /\ Enter("last_included_document_by_journal",
                 last_included_document_by_journal_body(issn, collection))
        /\ UNCHANGED <<years, raw, document_types, issue_type>>

(* self.client: make_client returns a fresh client. *)
make_client ==
    /\ pc = "built"
    /\ pc' = "connected"
    /\ clients' = clients + 1
    /\ UNCHANGED <<op, years, raw, document_types, issue_type, body, requests,
                   query_result, year, reductions, result>>

(* A first failure of make_client is swallowed and the client made anew. *)
make_client_retries ==
    /\ pc = "built"
    /\ IF clients = 0
       THEN /\ pc' = "built"
            /\ clients' = 1
            /\ UNCHANGED result
       ELSE /\ pc' = "done"
            /\ result' = TransportError
            /\ UNCHANGED clients
    /\ UNCHANGED <<op, years, raw, document_types, issue_type, body,
                   requests, query_result, year, reductions>>

(* make_client raises: the exception leaves the operation. *)
make_client_fails ==
    /\ pc = "built"
    /\ pc' = "done"
    /\ result' = TransportError
    /\ UNCHANGED <<op, years, raw, document_types, issue_type, body, clients,
                   requests, query_result, year, reductions>>

(* The arguments of client.search for the operation. *)
SearchRequest(name, b) ==
    IF name = "access_lifetime" THEN <<b, SizeParameter("0")>>
    ELSE IF name \in {"first_included_document_by_journal",
                      "last_included_document_by_journal"}
    THEN <<"article", b, SizeParameter("1")>>
    ELSE <<"article", b, SizeParameter("0")>>

(* The responses the backend may give to the operation's query. *)
Responses(name, n) ==
    CASE name = "access_lifetime" -> LifetimeResponses
      [] name = "documents_languages_by_year" -> LanguageResponses
      [] name = "number_of_articles_by_year" -> ArticleResponses(n)
      [] name = "number_of_issues_by_year" -> IssueResponses(n)
      [] OTHER -> DocumentResponses

(* client.search(...) returns and json.loads decodes the response. *)
search ==
    /\ pc = "connected"
    /\ pc' = "received"
    /\ requests' = Append(requests, SearchRequest(op, body))
    /\ \E r \in Responses(op, years) : query_result' = r
    /\ UNCHANGED <<op, years, raw, document_types, issue_type, body, clients,
                   year, reductions, result>>

(* client.search(...) raises after the request was dispatched. *)
search_fails ==
    /\ pc = "connected"
    /\ pc' = "done"
    /\ requests' = Append(requests, SearchRequest(op, body))
    /\ result' = TransportError
    /\ UNCHANGED <<op, years, raw, document_types, issue_type, body, clients,
                   query_result, year, reductions>>

(* The operation reads date.today().year inside its reducer. *)
ReadsClock(name, n) ==
    \/ name = "documents_languages_by_year"
    \/ name \in {"number_of_articles_by_year", "number_of_issues_by_year"} /\ n # 0

(* The raw/computed choice is made before the reduction is run. *)
ComputeRawFirst(name, qr, n, r, y) ==
    CASE name = "access_lifetime" ->
            IF r THEN Raw(qr) ELSE compute_access_lifetime(qr)
      [] name = "documents_languages_by_year" -> compute_documents_languages_by_year(qr, n, y)
      [] name = "number_of_articles_by_year" -> compute_number_of_articles_by_year(qr, n, y)
      [] name = "number_of_issues_by_year" -> compute_number_of_issues_by_year(qr, n, y)
      [] name = "first_included_document_by_journal" -> compute_first_included_document_by_journal(qr)
      [] OTHER -> compute_last_included_document_by_journal(qr)

(* The value the operation returns, or the exception it raises, once the   *)
(* response is decoded; y is the year date.today() reports.                *)
Compute(name, qr, n, r, y) ==
    CASE name = "access_lifetime" ->
            LET computed == compute_access_lifetime(qr)
            IN  IF computed.kind = "raise" THEN computed
                ELSE IF r THEN Raw(qr) ELSE computed
      [] name = "documents_languages_by_year" ->
            compute_documents_languages_by_year(qr, n, y)
      [] name = "number_of_articles_by_year" ->
            compute_number_of_articles_by_year(qr, n, y)
      [] name = "number_of_issues_by_year" ->
            compute_number_of_issues_by_year(qr, n, y)
      [] name = "first_included_document_by_journal" ->
            compute_first_included_document_by_journal(qr)
      [] OTHER ->
            compute_last_included_document_by_journal(qr)

(* The reducer takes the keys it folds out of the response. *)
reduce_consuming ==
    /\ pc = "received"
    /\ pc' = "done"
    /\ reductions' = reductions + 1
    /\ \E y \in (IF ReadsClock(op, years) THEN ClockYears ELSE {0}) :
        /\ year' = y
        /\ result' = Compute(op, query_result, years, raw, y)
    /\ query_result' = EmptyDict
    /\ UNCHANGED <<op, years, raw, document_types, issue_type, body, clients,
                   requests>>

(* The reducer runs and the operation returns or raises. *)
reduce ==
    /\ pc = "received"
    /\ pc' = "done"
    /\ reductions' = reductions + 1
    /\ \E y \in (IF ReadsClock(op, years) THEN ClockYears ELSE {0}) :
        /\ year' = y
        /\ result' = Compute(op, query_result, years, raw, y)
    /\ UNCHANGED <<op, years, raw, document_types, issue_type, body, clients,
                   requests, query_result>>

(* The caller takes the outcome; nothing of the call is kept. *)
return ==
    /\ pc = "done"
    /\ pc' = "idle"
    /\ op' = "none"
    /\ years' = 0
    /\ raw' = FALSE
    /\ document_types' = <<>>
    /\ issue_type' = ""
    /\ body' = EmptyDict
    /\ clients' = 0
    /\ requests' = <<>>
    /\ query_result' = EmptyDict
    /\ year' = 0
    /\ reductions' = 0
    /\ result' = NoResult

Next ==
    \/ access_lifetime
    \/ documents_languages_by_year
    \/ number_of_articles_by_year
    \/ number_of_issues_by_year
    \/ first_included_document_by_journal
    \/ last_included_document_by_journal
    \/ make_client
    \/ make_client_fails
    \/ search
    \/ search_fails
    \/ reduce
    \/ return

Spec == Init /\ [][Next]_vars

(***************************************************************************)
(* Properties                                                              *)
(***************************************************************************)
ByYearOps ==
    {"documents_languages_by_year", "number_of_articles_by_year",
     "number_of_issues_by_year"}

CountOps == {"number_of_articles_by_year", "number_of_issues_by_year"}

DocumentOps ==
    {"first_included_document_by_journal", "last_included_document_by_journal"}

(* The operation's reducer has run and returned a value. *)
Reduced == pc = "done" /\ reductions = 1

Returned == Reduced /\ result.kind # "raise"

(* The requested window as years, and the year keys of a by-year result. *)
Window == (year - years + 1)..year

ResultKeys ==
    IF result.kind = "list"
    THEN {result.items[i][1] : i \in 1..Len(result.items)}
    ELSE DOMAIN result.map

ResultValue(k) ==
    IF result.kind = "list"
    THEN LET i == CHOOSE j \in 1..Len(result.items) : result.items[j][1] = k
         IN  result.items[i][2]
    ELSE result.map[k]

ResponseBuckets == query_result.aggregations.publication_year.buckets

(* The last year bucket of the response with key k, if there is one. *)
HasBucket(k) == \E i \in 1..Len(ResponseBuckets) : ResponseBuckets[i].key = k

LastBucket(k) ==
    LET i == CHOOSE j \in 1..Len(ResponseBuckets) :
                /\ ResponseBuckets[j].key = k
                /\ \A h \in (j + 1)..Len(ResponseBuckets) :
                       ResponseBuckets[h].key # k
    IN  ResponseBuckets[i]

ZeroOf(name) ==
    IF name = "documents_languages_by_year"
    THEN [pt |-> 0, en |-> 0, es |-> 0, other |-> 0]
    ELSE 0

(* C1: with years = N > 0, a by-year operation that returns gives exactly  *)
(* N year entries, their keys are exactly the years current_year - N + 1   *)
(* .. current_year, and a year with no bucket in the response carries 0    *)
(* (the all-zero record for languages).                                    *)
C1_ExactWindow ==
    (Returned /\ op \in ByYearOps /\ years > 0) =>
        /\ result.kind = (IF op \in CountOps THEN "list" ELSE "dict")
        /\ result.kind = "list" => Len(result.items) = years
        /\ Cardinality(ResultKeys) = years
        /\ {IntOf(k) : k \in ResultKeys} = Window
        /\ \A k \in ResultKeys : k = Str(IntOf(k))
        /\ \A k \in ResultKeys : ~HasBucket(k) => ResultValue(k) = ZeroOf(op)

(* A response with more year buckets than the window, or with none in it. *)
C1_Witness ==
    /\ Returned /\ op \in ByYearOps /\ years = 1
    /\ Len(ResponseBuckets) = 2
    /\ \A k \in ResultKeys : ~HasBucket(k)

(* The response without its year buckets outside the window. *)
InWindowOnly(qr, y, n) ==
    LET b == YearBuckets(qr)
        Keep(item) == ~Has(item, "key") \/ IntOf(item.key) \in (y - n + 1)..y
    IN  IF b.kind = "raise" THEN qr ELSE WithBuckets(SelectSeq(b.buckets, Keep))

(* C2: a year bucket whose key is outside the window never appears in the  *)
(* output of a by-year reducer, and the outcome is the one the response    *)
(* has without those buckets.                                              *)
C2_OutsideWindowDropped ==
    (Reduced /\ (op = "documents_languages_by_year"
                 \/ (op \in CountOps /\ years > 0))) =>
        /\ result.kind # "raise" =>
               \A k \in ResultKeys : IntOf(k) \in Window
        /\ result = Compute(op, InWindowOnly(query_result, year, years),
                            years, raw, year)

(* A bucket outside the window next to one inside it. *)
C2_Witness ==
    /\ Returned /\ op \in ByYearOps /\ years > 0
    /\ Len(ResponseBuckets) = 2
    /\ IntOf(ResponseBuckets[1].key) \notin Window
    /\ IntOf(ResponseBuckets[2].key) \in Window
    /\ ResultValue(ResponseBuckets[2].key) # ZeroOf(op)

(* bucket[name]['value'], 0 without the metric sub-result. *)
NestedMetric(bucket, name) ==
    IF Has(bucket, name) /\ Has(bucket[name], "value")
    THEN bucket[name].value ELSE 0

(* C3: for years > 0, number_of_articles_by_year reports for each window   *)
(* year with a bucket the bucket's nested cardinality-over-id value, 0     *)
(* when the bucket has no metric sub-result.                               *)
C3_ArticlesReportCardinality ==
    (Returned /\ op = "number_of_articles_by_year" /\ years > 0) =>
        \A k \in ResultKeys :
            HasBucket(k) => ResultValue(k) = NestedMetric(LastBucket(k), "id")

MetricName == IF op = "number_of_articles_by_year" THEN "id" ELSE "issue"

HasTopMetric ==
    /\ Has(query_result, "aggregations")
    /\ Has(query_result.aggregations, MetricName)
    /\ Has(query_result.aggregations[MetricName], "value")

(* C4: with years = 0 the articles and issues operations send a query      *)
(* whose only aggregation is the top-level cardinality, and return the     *)
(* response's top-level metric value as a scalar, never a list.            *)
C4_ScalarWithoutYears ==
    (op \in CountOps /\ years = 0) =>
        /\ body.aggs = (MetricName :> [cardinality |-> [field |-> MetricName]])
        /\ \A i \in 1..Len(requests) : requests[i][2] = body
        /\ Reduced => /\ result.kind \in {"scalar", "raise"}
                      /\ HasTopMetric =>
                            result = [kind |-> "scalar",
                                      value |-> query_result.aggregations[MetricName].value]

C4_Witness ==
    /\ Returned /\ op \in CountOps /\ years = 0
    /\ result.kind = "scalar" /\ result.value = MaxCount

RECURSIVE SumDocCounts(_, _)
SumDocCounts(lbuckets, keys) ==
    IF lbuckets = <<>> THEN 0
    ELSE (IF Head(lbuckets).key \in keys THEN Head(lbuckets).doc_count ELSE 0)
         + SumDocCounts(Tail(lbuckets), keys)

AllLanguageKeys(lbuckets) == {lbuckets[i].key : i \in 1..Len(lbuckets)}

(* C5: every per-year record of the language reduction has exactly the     *)
(* keys pt, en, es, other; for a window year with a bucket, pt, en and es  *)
(* hold the doc_counts of the language buckets with exactly that key and   *)
(* other holds those of every other key, so the four slots sum to the      *)
(* total.                                                                  *)
C5_LanguageSlots ==
    (Returned /\ op = "documents_languages_by_year") =>
        \A k \in ResultKeys :
            /\ DOMAIN result.map[k] = {"pt", "en", "es", "other"}
            /\ HasBucket(k) =>
                LET lb == LastBucket(k).languages.buckets
                    r == result.map[k]
                IN  /\ r.pt = SumDocCounts(lb, {"pt"})
                    /\ r.en = SumDocCounts(lb, {"en"})
                    /\ r.es = SumDocCounts(lb, {"es"})
                    /\ r.other = SumDocCounts(lb,
                                    AllLanguageKeys(lb) \ {"pt", "en", "es"})
                    /\ r.pt + r.en + r.es + r.other
                           = SumDocCounts(lb, AllLanguageKeys(lb))

(* A year bucket with "fr" and "es": fr is folded into other. *)
C5_Witness ==
    /\ Returned /\ op = "documents_languages_by_year"
    /\ \E k \in ResultKeys :
        /\ HasBucket(k)
        /\ AllLanguageKeys(LastBucket(k).languages.buckets) = {"fr", "es"}
        /\ result.map[k] = [pt |-> 0, en |-> 0, es |-> 3, other |-> 5]

(* The (publication_year bucket, access_year bucket) pairs of the response. *)
LifetimePairs ==
    UNION {{<<i, j>> : j \in 1..Len(ResponseBuckets[i].access_year.buckets)} :
              i \in 1..Len(ResponseBuckets)}

(* The LifetimePoint of a pair: the two keys and the five counts. *)
PointOf(p) ==
    LET py == ResponseBuckets[p[1]]
        ay == py.access_year.buckets[p[2]]
    IN  <<py.key, ay.key,
          ay.access_html.value \div 2, ay.access_abstract.value \div 2,
          ay.access_pdf.value \div 2, ay.access_epdf.value \div 2,
          ay.access_total.value \div 2>>

(* (publication_year, access_year) of one point before that of another. *)
YearsBefore(a, b) ==
    \/ IntOf(a[1]) < IntOf(b[1])
    \/ IntOf(a[1]) = IntOf(b[1]) /\ IntOf(a[2]) < IntOf(b[2])

SameYears(a, b) == a[1] = b[1] /\ a[2] = b[2]

LifetimeReturned == Returned /\ op = "access_lifetime" /\ ~raw

(* One point per pair: every point occurs as often as pairs yield it. *)
OnePointPerPair ==
    /\ Len(result.rows) = Cardinality(LifetimePairs)
    /\ \A p \in LifetimePairs :
        Cardinality({i \in 1..Len(result.rows) : result.rows[i] = PointOf(p)})
            = Cardinality({q \in LifetimePairs : PointOf(q) = PointOf(p)})

(* C6 as stated: one LifetimePoint per pair, and the list in strict        *)
(* ascending order by (publication_year, access_year) for every response.  *)
C6_StrictlyAscending ==
    LifetimeReturned =>
        /\ OnePointPerPair
        /\ \A i \in 1..(Len(result.rows) - 1) :
               YearsBefore(result.rows[i], result.rows[i + 1])

(* C6 amended: one LifetimePoint per pair, the list ascending by           *)
(* (publication_year, access_year) whatever the order of the buckets, and  *)
(* strictly ascending when no (publication_year, access_year) occurs twice *)
(* in the response; two points of the same years are neighbours.           *)
C6_AscendingLifetime ==
    LifetimeReturned =>
        /\ OnePointPerPair
        /\ \A i \in 1..(Len(result.rows) - 1) :
               \/ YearsBefore(result.rows[i], result.rows[i + 1])
               \/ SameYears(result.rows[i], result.rows[i + 1])
        /\ (\A p, q \in LifetimePairs :
                SameYears(PointOf(p), PointOf(q)) => p = q)
           => \A i \in 1..(Len(result.rows) - 1) :
                  YearsBefore(result.rows[i], result.rows[i + 1])

(* Interleaved publication years: a year comes back after another one. *)
C6_Witness ==
    /\ LifetimeReturned
    /\ Len(ResponseBuckets) = 3
    /\ ResponseBuckets[1].key = ResponseBuckets[3].key
    /\ IntOf(ResponseBuckets[2].key) < IntOf(ResponseBuckets[1].key)
    /\ Len(result.rows) = 3
    /\ \A i \in 1..2 : YearsBefore(result.rows[i], result.rows[i + 1])

(* C7: the document lookups return None when hits.hits is empty or the     *)
(* hits key is missing, and otherwise the _source of the first hit,        *)
(* whatever hits follow it.                                                *)
C7_FirstHitOrNone ==
    (Reduced /\ op \in DocumentOps) =>
        IF ~Has(query_result, "hits") \/ ~Has(query_result.hits, "hits")
        THEN result = [kind |-> "None"]
        ELSE IF query_result.hits.hits = <<>>
        THEN result = [kind |-> "None"]
        ELSE Has(query_result.hits.hits[1], "_source") =>
                result = [kind |-> "record",
                          value |-> query_result.hits.hits[1]._source]

(* Two hits with different sources: the first one is returned. *)
C7_Witness ==
    /\ Returned /\ op \in DocumentOps
    /\ result.kind = "record"
    /\ Len(query_result.hits.hits) = 2
    /\ Has(query_result.hits.hits[2], "_source")
    /\ query_result.hits.hits[2]._source # result.value

(* C8: for years = N > 0, number_of_issues_by_year returns (year, count)   *)
(* pairs in strictly descending order of year; a window year with a bucket *)
(* carries the bucket's issue cardinality value, 0 if the bucket has no    *)
(* issue metric, and every other window year carries 0.                    *)
C8_IssuesByYear ==
    (Returned /\ op = "number_of_issues_by_year" /\ years > 0) =>
        /\ result.kind = "list"
        /\ Len(result.items) = years
        /\ \A i \in 1..Len(result.items) :
            /\ IntOf(result.items[i][1]) = year - i + 1
            /\ result.items[i][2] =
                  IF HasBucket(result.items[i][1])
                  THEN NestedMetric(LastBucket(result.items[i][1]), "issue")
                  ELSE 0

(* Data only for the current year: it comes first with the backend's       *)
(* value, the older years follow with 0.                                   *)
C8_Witness ==
    /\ Returned /\ op = "number_of_issues_by_year" /\ years = MaxYears
    /\ Len(ResponseBuckets) = 1
    /\ IntOf(ResponseBuckets[1].key) = year
    /\ result.items[1][2] = MaxCount
    /\ \A i \in 2..years : result.items[i][2] = 0

(* C9: a response lacking an expected aggregation key is absent data: no   *)
(* reducer raises.                                                         *)
C9_ReducersNeverRaise == Reduced => result.kind # "raise"

(* C10: a call makes at most one client and sends at most one request, the *)
(* one built from its body; an operation that ends without having reduced  *)
(* ended with the transport error, and one that reduced made exactly one   *)
(* client and sent exactly one request on it.                              *)
C10_OneRoundTrip ==
    /\ clients <= 1
    /\ Len(requests) <= clients
    /\ reductions <= Len(requests)
    /\ \A i \in 1..Len(requests) : requests[i] = SearchRequest(op, body)
    /\ pc \in {"connected", "received"} => clients = 1
    /\ pc = "received" => Len(requests) = 1
    /\ pc = "done" =>
        IF reductions = 0
        THEN result = [kind |-> "raise", exc |-> "TransportError"]
        ELSE /\ clients = 1 /\ Len(requests) = 1 /\ reductions = 1
             /\ result # [kind |-> "raise", exc |-> "TransportError"]

(* The search failed after the request went out: no reduction, no retry. *)
C10_Witness ==
    /\ pc = "done" /\ clients = 1 /\ Len(requests) = 1 /\ reductions = 0
    /\ result.kind = "raise"

C12_ArticlesQuery ==
    op = "number_of_articles_by_year" =>
        LET f == body.query.filtered
        IN  /\ \E i \in Issns, c \in Collections :
                 f.query.bool.must = <<[match |-> [issn |-> i]],
                                       [match |-> [collection |-> c]]>>
            /\ Has(f, "filter") <=> document_types # <<>>
            /\ Has(f, "filter") =>
                 /\ DOMAIN f.filter.query.bool = {"should"}
                 /\ Len(f.filter.query.bool.should) = Len(document_types)
                 /\ \A t \in 1..Len(document_types) :
                        f.filter.query.bool.should[t] =
                            [match |-> [document_type |-> document_types[t]]]
            /\ Has(body.aggs, "publication_year") <=> years # 0
            /\ years # 0 =>
                 body.aggs =
                    [publication_year |->
                        [terms |-> [field |-> "publication_year",
                                    size |-> years,
                                    order |-> [_term |-> "desc"]],
                         aggs |-> [id |-> [cardinality |-> [field |-> "id"]]]]]
            /\ years = 0 =>
                 body.aggs = [id |-> [cardinality |-> [field |-> "id"]]]

(* Two document types and a year window: both clauses and the bucket. *)
C12_Witness ==
    /\ op = "number_of_articles_by_year" /\ pc = "received"
    /\ Len(document_types) = 2 /\ years = MaxYears
    /\ Len(requests) = 1
    /\ Len(requests[1][2].query.filtered.filter.query.bool.should) = 2

(* The year bucket list of the response is there and every bucket has a key. *)
YearBucketsReadable ==
    /\ Has(query_result, "aggregations")
    /\ Has(query_result.aggregations, "publication_year")
    /\ Has(query_result.aggregations.publication_year, "buckets")
    /\ \A i \in 1..Len(ResponseBuckets) : Has(ResponseBuckets[i], "key")

(* C13: documents_languages_by_year with years = 0 asks for an unrestricted *)
(* number of year buckets (terms size 0), and its reduction gives the empty *)
(* mapping whatever year buckets the response carries.                      *)
C13_ZeroYearsEmptyMapping ==
    (op = "documents_languages_by_year" /\ years = 0) =>
        /\ body.aggs.publication_year.terms.size = 0
        /\ (Reduced /\ YearBucketsReadable) => result = Mapping(EmptyDict)

(* years = 0, the response has a bucket of the current year with languages, *)
(* and the mapping returned is empty.                                       *)
C13_Witness ==
    /\ op = "documents_languages_by_year" /\ years = 0 /\ Reduced
    /\ YearBucketsReadable
    /\ \E i \in 1..Len(ResponseBuckets) :
          /\ IntOf(ResponseBuckets[i].key) = year
          /\ Has(ResponseBuckets[i], "languages")
          /\ Has(ResponseBuckets[i].languages, "buckets")
          /\ Len(ResponseBuckets[i].languages.buckets) > 0
    /\ result = Mapping(EmptyDict)

(* Every key the lifetime reduction subscripts is in the response. *)
LifetimeFoldable ==
    /\ Has(query_result, "aggregations")
    /\ Has(query_result.aggregations, "publication_year")
    /\ Has(query_result.aggregations.publication_year, "buckets")
    /\ \A i \in 1..Len(ResponseBuckets) :
          LET py == ResponseBuckets[i]
          IN  /\ Has(py, "access_year")
              /\ Has(py.access_year, "buckets")
              /\ \A j \in 1..Len(py.access_year.buckets) :
                    LET ay == py.access_year.buckets[j]
                    IN  /\ Has(py, "key")
                        /\ Has(ay, "key")
                        /\ \A m \in {"access_html", "access_abstract",
                                     "access_pdf", "access_epdf",
                                     "access_total"} :
                              Has(ay, m) /\ Has(ay[m], "value")

(* C14: access_lifetime with raw=True returns the decoded response          *)
(* unchanged when the reduction can fold it, and fails when it cannot: the  *)
(* reduction runs before the raw/computed choice.                           *)
C14_RawStillReduces ==
    (op = "access_lifetime" /\ raw /\ Reduced) =>
        IF LifetimeFoldable THEN result = Raw(query_result)
                            ELSE result.kind = "raise"

(* A raw call fails on a response that has its year buckets but lacks a    *)
(* key the reduction reads.                                                *)
C14_Witness ==
    /\ op = "access_lifetime" /\ raw /\ Reduced
    /\ Has(query_result, "aggregations")
    /\ Has(query_result.aggregations, "publication_year")
    /\ Has(query_result.aggregations.publication_year, "buckets")
    /\ ~LifetimeFoldable
    /\ result = KeyError

(* The response has several year buckets with key k. *)
Repeated(k) ==
    Cardinality({i \in 1..Len(ResponseBuckets) : ResponseBuckets[i].key = k}) >= 2

(* The breakdown of one year bucket alone, repeated language keys added up. *)
BreakdownOf(bucket) ==
    LET lb == bucket.languages.buckets
    IN  [pt |-> SumDocCounts(lb, {"pt"}),
         en |-> SumDocCounts(lb, {"en"}),
         es |-> SumDocCounts(lb, {"es"}),
         other |-> SumDocCounts(lb, AllLanguageKeys(lb) \ {"pt", "en", "es"})]

(* C15: when several year buckets of a response have the same in-window     *)
(* key, a by-year reduction that returns gives that year the value of the  *)
(* last of them alone (articles: its doc_count; issues: its issue value;   *)
(* languages: its breakdown, not the sum with the earlier buckets'), while *)
(* repeated language keys inside one year bucket are added up.             *)
C15_LastBucketWins ==
    (Returned /\ op \in ByYearOps /\ years > 0) =>
        \A k \in ResultKeys :
            /\ Repeated(k) =>
                 CASE op = "number_of_articles_by_year" ->
                        ResultValue(k) = DictGet(LastBucket(k), "doc_count", 0)
                   [] op = "number_of_issues_by_year" ->
                        ResultValue(k) = NestedMetric(LastBucket(k), "issue")
                   [] OTHER ->
                        ResultValue(k) = BreakdownOf(LastBucket(k))
            /\ (op = "documents_languages_by_year" /\ HasBucket(k)) =>
                 \A l \in {"pt", "en", "es"} :
                    ResultValue(k)[l] =
                        SumDocCounts(LastBucket(k).languages.buckets, {l})

(* Two buckets of the current year with different doc_counts: the second   *)
(* one's count is reported.                                                *)
C15_Witness ==
    /\ Returned /\ op = "number_of_articles_by_year" /\ years > 0
    /\ Len(ResponseBuckets) = 2
    /\ IntOf(ResponseBuckets[1].key) = year
    /\ ResponseBuckets[2].key = ResponseBuckets[1].key
    /\ Has(ResponseBuckets[1], "doc_count") /\ Has(ResponseBuckets[2], "doc_count")
    /\ ResponseBuckets[1].doc_count = 2 /\ ResponseBuckets[2].doc_count = 1
    /\ ResultValue(ResponseBuckets[1].key) = 1

(* C16: a document lookup whose hit list is non-empty but whose first hit  *)
(* has no _source returns None, the value it returns for an empty hit list. *)
C16_MissingSourceIsNone ==
    (Reduced /\ op \in DocumentOps
        /\ Has(query_result, "hits") /\ Has(query_result.hits, "hits")) =>
        LET hits == query_result.hits.hits
        IN  /\ hits = <<>> => result = [kind |-> "None"]
            /\ (hits # <<>> /\ ~Has(hits[1], "_source")) =>
                    result = [kind |-> "None"]

(* The first of two hits has no _source, the second has one: None. *)
C16_Witness ==
    /\ Reduced /\ op = "last_included_document_by_journal"
    /\ Has(query_result, "hits") /\ Has(query_result.hits, "hits")
    /\ Len(query_result.hits.hits) = 2
    /\ ~Has(query_result.hits.hits[1], "_source")
    /\ Has(query_result.hits.hits[2], "_source")
    /\ result = [kind |-> "None"]

====
